---- MODULE Spec2Model ----
(***************************************************************************)
(* Billing_System record store: per-firm table (dataset.py), invoice       *)
(* counter (invoice_number.py), shared audit log (audit_log.py), per-firm  *)
(* file lock (file_lock.py), field edits (services/case_service.py) and    *)
(* payments (payment.py).                                                  *)
(*                                                                         *)
(* Cell values are strings; None is Python's None (an empty cell).  A      *)
(* float is written as Python prints it ("150.0").                         *)
(***************************************************************************)
EXTENDS Integers, Sequences, FiniteSets, TLC

VARIABLES
    table,      \* [Firms -> Seq(row)]: data rows of sheet 'cases' of master_{firm}.xlsx
    counter,    \* [Firms -> Absent or [year, last_number]]: invoice_counter.json
    audit,      \* audit_log.csv: whether the file exists, and its lines
    year,       \* date.today().year
    config,     \* config.json: invoice_numbering.yearly_reset
    header,     \* [Firms -> row 1 of sheet 'cases': the column names]
    flock,      \* [Firms -> NoProc or the process whose descriptor holds the OS lock]
    sentinel,   \* [Firms -> contents of master_{firm}.lock]
    pc,         \* [Procs -> where the process is in the call it runs]
    call,       \* [Procs -> the arguments of the call it runs]
    wb,         \* [Procs -> the workbook it loaded (rows), its in-memory copy]
    elapsed,    \* [Procs -> retry intervals slept since __enter__ began]
    calls,      \* the calls the processes have begun
    last,       \* the last call that returned: operation, arguments, result
    tick        \* flips at every return of a call made as one step (Seq... actions)

vars ==
    <<table, counter, audit, year, config, header, flock, sentinel, pc, call, wb,
      elapsed, calls, last, tick>>

----------------------------------------------------------------------------
(* Values *)

None == "<None>"
NoProc == "<nobody>"

\* a file that does not exist, a record that is not there
Absent == [absent |-> TRUE]

\* no call is running; no call has returned
NoCall == [op |-> "none"]
NoLast ==
    [op |-> "none", firm |-> None, args |-> None, pre |-> <<>>, ret |-> None,
     again |-> FALSE, first |-> None]

Firms == {"ABC Law", "bbc law"}
Procs == {"p1", "p2"}
MainFirm == "ABC Law"

COLUMNS ==
    <<"appearance_date", "invoice_number", "index_number", "case_caption",
      "court", "outcome", "case_status", "charge_amount", "invoice_sent_date",
      "paid_status", "payment_date", "notes">>

Headers == {COLUMNS[i] : i \in 1..Len(COLUMNS)}

VALID_CASE_STATUSES == {"Open", "Adjourned", "Closed", "Settled", "Dismissed"}

\* str(v)
Str(v) == IF v = None THEN "None" ELSE v

\* v or ""
OrEmpty(v) == IF v = None THEN "" ELSE v

\* s.strip().lower() on the index numbers of the model
StripLower(s) ==
    CASE s \in {"IDX-1", " idx-1 ", "idx-1"} -> "idx-1"
      [] s \in {"IDX-2", "idx-2"} -> "idx-2"
      [] s = "None" -> "none"
      [] OTHER -> s

\* s.strip()
Strip(s) ==
    CASE s = " idx-1 " -> "idx-1"
      [] s \in {" ", "  "} -> ""
      [] OTHER -> s

\* dict.get(key, default)
Get(d, k, default) == IF k \in DOMAIN d THEN d[k] ELSE default

BlankRow == [c \in Headers |-> None]

IsBlank(row) == \A c \in Headers : row[c] = None

----------------------------------------------------------------------------
(* dataset.py *)

\* load_dataset: the rows of the sheet that are not fully blank, in order
load_dataset(rows) == SelectSeq(rows, LAMBDA r : ~IsBlank(r))

\* find_row_by_key: the first row matching the key, or None (Absent)
find_row_by_key(rows, index_number, appearance_date) ==
    LET data == load_dataset(rows)
        target_idx == StripLower(index_number)
        target_date == Str(appearance_date)
        hits == {i \in 1..Len(data) :
                    /\ StripLower(Str(data[i]["index_number"])) = target_idx
                    /\ Str(data[i]["appearance_date"]) = target_date}
    IN  IF hits = {} THEN Absent
        ELSE data[CHOOSE i \in hits : \A j \in hits : i <= j]

\* a mutant of _match_key: compares index numbers without lower()
MatchKeyCaseSensitive(rows, index_number, appearance_date) ==
    LET hits == {i \in 1..Len(rows) :
                    /\ Strip(OrEmpty(rows[i]["index_number"])) = Strip(index_number)
                    /\ OrEmpty(rows[i]["appearance_date"]) = Str(appearance_date)}
    IN  IF hits = {} THEN 0 ELSE CHOOSE i \in hits : \A j \in hits : i <= j

\* a mutant of _match_key: the scan starts one row too late (min_row=3)
MatchKeySkipFirst(rows, index_number, appearance_date) ==
    LET hits == {i \in 2..Len(rows) :
                    /\ StripLower(OrEmpty(rows[i]["index_number"])) = StripLower(index_number)
                    /\ OrEmpty(rows[i]["appearance_date"]) = Str(appearance_date)}
    IN  IF hits = {} THEN 0 ELSE CHOOSE i \in hits : \A j \in hits : i <= j

\* _match_key: the position of the first sheet row matching the key, 0 for None
MatchKey(rows, index_number, appearance_date) ==
    LET target_idx == StripLower(index_number)
        target_date == Str(appearance_date)
        hits == {i \in 1..Len(rows) :
                    /\ StripLower(OrEmpty(rows[i]["index_number"])) = target_idx
                    /\ OrEmpty(rows[i]["appearance_date"]) = target_date}
    IN  IF hits = {} THEN 0 ELSE CHOOSE i \in hits : \A j \in hits : i <= j

\* a mutant of upsert_row's update branch: rewrites the whole row from row_data
UpdateWholeRow(row, row_data) == [c \in Headers |-> Get(row_data, c, None)]

\* upsert_row, update branch: overwrite only the fields that are provided
UpdateRow(row, row_data) ==
    [c \in Headers |-> IF c \in DOMAIN row_data THEN row_data[c] ELSE row[c]]

\* a mutant of upsert_row's insert branch: the new row replaces the last row
InsertOverLast(rows, row_data) ==
    IF rows = <<>> THEN <<[c \in Headers |-> Get(row_data, c, None)]>>
    ELSE [rows EXCEPT ![Len(rows)] = [c \in Headers |-> Get(row_data, c, None)]]

\* upsert_row, insert branch: new_row = [row_data.get(col) for col in headers]
InsertRow(rows, row_data) ==
    Append(rows, [c \in Headers |-> Get(row_data, c, None)])

\* upsert_row on a loaded workbook: the rows it saves and what it returns
upsert_row(rows, row_data) ==
    LET idx_num == Str(Get(row_data, "index_number", ""))
        app_date == Str(Get(row_data, "appearance_date", ""))
        existing_row == MatchKey(rows, idx_num, app_date)
    IN  IF existing_row # 0
        THEN [rows |-> [rows EXCEPT ![existing_row] = UpdateRow(@, row_data)],
              ret |-> "updated"]
        ELSE [rows |-> InsertRow(rows, row_data), ret |-> "inserted"]

----------------------------------------------------------------------------
(* invoice_number.py *)

Initials == [f \in Firms |-> IF f = "ABC Law" THEN "AL" ELSE "BL"]

\* "{initials}{year}{number:03d}".format(...)
FormatInvoice(initials, y, number) ==
    initials \o ToString(y) \o
        (IF number < 10 THEN "00" \o ToString(number)
         ELSE IF number < 100 THEN "0" \o ToString(number)
         ELSE ToString(number))

\* _load_counter: the stored counter, or the default when the file is absent
LoadCounter(c, today) ==
    IF c = Absent THEN [year |-> today, last_number |-> 0] ELSE c

\* a mutant of the yearly reset: the year is updated, last_number is kept
ResetKeepsNumber(c, current_year, yearly_reset) ==
    IF yearly_reset /\ c.year # current_year
    THEN [year |-> current_year, last_number |-> c.last_number]
    ELSE c

\* next_invoice_number, the yearly reset
YearlyReset(c, current_year, yearly_reset) ==
    IF yearly_reset /\ c.year # current_year
    THEN [year |-> current_year, last_number |-> 0]
    ELSE c

\* a mutant of the increment: the counter is saved before it is incremented
SaveBeforeIncrement(c, initials) ==
    [counter |-> c,
     number |-> c.last_number + 1,
     ret |-> FormatInvoice(initials, c.year, c.last_number + 1)]

\* next_invoice_number, increment, save and format
IncrementAndFormat(c, initials) ==
    LET c2 == [c EXCEPT !.last_number = @ + 1]
    IN  [counter |-> c2,
         number |-> c2.last_number,
         ret |-> FormatInvoice(initials, c2.year, c2.last_number)]

\* next_invoice_number on the stored counter c: the counter it saves, the
\* sequence number it formats and the string it returns
next_invoice_number(c, today, yearly_reset, initials) ==
    IncrementAndFormat(YearlyReset(LoadCounter(c, today), today, yearly_reset), initials)

----------------------------------------------------------------------------
(* audit_log.py *)

AUDIT_COLUMNS ==
    <<"timestamp", "user", "hostname", "action", "firm", "case_key",
      "field_name", "old_value", "new_value", "reason">>

\* the csv row append_audit writes (timestamp, login and host do not vary)
AuditRow(firm, index_number, appearance_date, action, field_name, old_value, new_value, reason) ==
    <<"now", "login", "host", action, firm,
      index_number \o "|" \o appearance_date, field_name,
      IF old_value # None THEN Str(old_value) ELSE "",
      IF new_value # None THEN Str(new_value) ELSE "",
      IF reason = None THEN "" ELSE reason>>

\* a mutant of append_audit: the row is written twice
AppendAuditTwice(log, row) ==
    [exists |-> TRUE,
     lines |-> log.lines \o (IF log.exists THEN <<>> ELSE <<AUDIT_COLUMNS>>) \o <<row, row>>]

\* a mutant of append_audit: the file is opened with mode "w"
AppendAuditTruncating(log, row) ==
    [exists |-> TRUE,
     lines |-> (IF log.exists THEN <<>> ELSE <<AUDIT_COLUMNS>>) \o <<row>>]

\* append_audit: the header when the file did not exist, then the row
append_audit(log, row) ==
    [exists |-> TRUE,
     lines |-> log.lines \o (IF log.exists THEN <<>> ELSE <<AUDIT_COLUMNS>>) \o <<row>>]

----------------------------------------------------------------------------
(* services/case_service.py *)

EDITABLE_FIELDS ==
    [charge_amount |-> "EDIT_CHARGE", court |-> "EDIT_COURT",
     outcome |-> "EDIT_OUTCOME", case_status |-> "EDIT_STATUS",
     notes |-> "EDIT_NOTES"]

\* whether float(s) returns (it raises ValueError otherwise)
IsFloat(s) == s \in {"200.00", "175", "150.0", "175.0", "200.0", "-5", "nan"}

\* float(s), as Python prints the result
Float(s) ==
    CASE s \in {"200.00", "200.0"} -> "200.0"
      [] s \in {"175", "175.0"} -> "175.0"
      [] s = "150.0" -> "150.0"
      [] s = "-5" -> "-5.0"
      [] s = "nan" -> "nan"
      [] OTHER -> s

\* a mutant of the reason check: only a missing reason (None) is refused
ReasonMissingNoneOnly(row, field_name, reason) ==
    /\ field_name = "charge_amount"
    /\ row["invoice_sent_date"] # None
    /\ Strip(Str(row["invoice_sent_date"])) # ""
    /\ reason = None

\* edit_case_field: a charge_amount edit after the invoice was sent, without
\* a reason ("not reason": None or the empty string)
ReasonMissing(row, field_name, reason) ==
    /\ field_name = "charge_amount"
    /\ row["invoice_sent_date"] # None
    /\ Strip(Str(row["invoice_sent_date"])) # ""
    /\ reason \in {None, ""}

\* edit_case_field up to the write: the checks in the order of the code, on
\* the rows find_row_by_key loaded
EditCheck(rows, index_number, appearance_date, field_name, new_value, reason) ==
    LET row == find_row_by_key(rows, index_number, appearance_date)
        fail(e) == [ok |-> FALSE, error |-> e, old_value |-> None, coerced |-> None]
    IN  IF field_name \notin DOMAIN EDITABLE_FIELDS THEN fail("FieldNotFound")
        ELSE IF row = Absent THEN fail("CaseNotFound")
        ELSE IF ReasonMissing(row, field_name, reason) THEN fail("ReasonRequired")
        ELSE IF field_name = "charge_amount" /\ ~IsFloat(new_value)
             THEN fail("ValidationFailed")
        ELSE IF field_name = "case_status" /\ new_value \notin VALID_CASE_STATUSES
             THEN fail("ValidationFailed")
        ELSE [ok |-> TRUE, error |-> None, old_value |-> row[field_name],
              coerced |-> IF field_name = "charge_amount" THEN Float(new_value)
                          ELSE new_value]

\* a mutant of the order of edit_case_field: the write comes before the
\* type coercion, so a value that fails validation is written
WritesBeforeCoercion(chk) == chk.ok \/ chk.error = "ValidationFailed"

\* edit_case_field reaches upsert_row and append_audit only when no check
\* has returned
Writes(chk) == chk.ok

\* the dict edit_case_field passes to upsert_row
EditRowData(index_number, appearance_date, field_name, coerced_value) ==
    [c \in {"index_number", "appearance_date", field_name} |->
        IF c = field_name THEN coerced_value
        ELSE IF c = "index_number" THEN index_number
        ELSE appearance_date]

----------------------------------------------------------------------------
(* file_lock.py: FirmFileLock.  Time is counted in retry intervals.        *)

\* timeout / retry_interval, the retry intervals a caller waits for the lock
TimeoutIntervals == 2

\* the processes begin no more than MaxCalls calls between them
MaxCalls == 4

\* json.dumps(_lock_info()): who holds the lock
LockInfo(p) == "holder:" \o p

\* the call of p has the lock (its descriptor is open and locked)
Holds(p, f) == flock[f] = p

\* the invoice numbers next_invoice_number has returned so far
IssuedOf(l) == IF "issued" \in DOMAIN l THEN l.issued ELSE <<>>

\* what last becomes when the call c of p returns ret, or raises the
\* exception raised
ReturnedOf(p, c, ret, raised) ==
    [op |-> c.op, firm |-> c.firm, proc |-> p, ret |-> ret, raised |-> raised,
     issued |-> IssuedOf(last)]

Returned(p, ret) == ReturnedOf(p, call[p], ret, None)

Raised(p, raised) == ReturnedOf(p, call[p], None, raised)

\* self.timeout in retry intervals: the argument of the call, or the default
Timeout(p) == IF "timeout" \in DOMAIN call[p] THEN call[p].timeout ELSE TimeoutIntervals

\* a mutant of the deadline test: the deadline never passes
DeadlineNever(p) == FALSE

\* time.monotonic() >= deadline
DeadlinePassed(p) == elapsed[p] >= Timeout(p)

\* a mutant of the release: the descriptor stays open and locked
NotReleased(p, f) == flock

\* os.close(fd), after flock(LOCK_UN) in __exit__: the lock of the firm is
\* free again if p had it
Released(p, f) == [flock EXCEPT ![f] = IF @ = p THEN NoProc ELSE @]

\* a mutant of the lock attempt: the lock is taken shared, so it never fails
TryLockShared(f) == TRUE

\* a mutant of the lock attempt: the lock is free when the sentinel file
\* names no holder
TryLockBySentinel(f) == sentinel[f] \in {None, ""}

\* a mutant of the lock attempt: one lock file serves all the firms
TryLockGlobal(f) == \A g \in Firms : flock[g] = NoProc

\* fcntl.flock(fd, LOCK_EX | LOCK_NB) / msvcrt.locking(fd, LK_NBLCK, 1)
\* succeeds when no other descriptor holds the lock of the firm's file
TryLock(f) == flock[f] = NoProc

\* os.open(path, O_RDWR | O_CREAT): a file that did not exist is created empty
Created(contents) == IF contents = None THEN "" ELSE contents

\* _read_holder_info: the text of the sentinel file, "(unknown holder)" when
\* it cannot be read
ReadHolderInfo(f) == IF sentinel[f] = None THEN "(unknown holder)" ELSE sentinel[f]

\* __enter__: os.open and the lock attempt.  On success the holder info is
\* written next; on failure (OSError) the descriptor is closed.
LockTry(p) ==
    /\ pc[p] = "lock_try"
    /\ IF TryLock(call[p].firm)
       THEN /\ flock' = [flock EXCEPT ![call[p].firm] = p]
            /\ pc' = [pc EXCEPT ![p] = "lock_truncate"]
       ELSE /\ pc' = [pc EXCEPT ![p] = "lock_deadline"]
            /\ UNCHANGED flock
    /\ sentinel' = [sentinel EXCEPT ![call[p].firm] = Created(@)]
    /\ call' = [call EXCEPT ![p].tried = TRUE]
    /\ UNCHANGED <<calls, table, counter, audit, year, config, header, wb,
                   elapsed, last, tick>>

\* __enter__: os.ftruncate(fd, 0)
LockTruncate(p) ==
    /\ pc[p] = "lock_truncate"
    /\ sentinel' = [sentinel EXCEPT ![call[p].firm] = ""]
    /\ pc' = [pc EXCEPT ![p] = "lock_write"]
    /\ UNCHANGED <<calls, table, counter, audit, year, config, header, flock, call, wb,
                   elapsed, last, tick>>

\* __enter__: os.write(fd, self._lock_info()); self._fd = fd; return self
LockWrite(p) ==
    /\ pc[p] = "lock_write"
    /\ sentinel' = [sentinel EXCEPT ![call[p].firm] = LockInfo(p)]
    /\ pc' = [pc EXCEPT ![p] = "locked"]
    /\ UNCHANGED <<calls, table, counter, audit, year, config, header, flock, call, wb,
                   elapsed, last, tick>>

\* __enter__: time.monotonic() >= deadline raises TimeoutError, which ends
\* the call; otherwise the process sleeps
LockDeadline(p) ==
    /\ pc[p] = "lock_deadline"
    /\ IF DeadlinePassed(p)
       THEN /\ pc' = [pc EXCEPT ![p] = "idle"]
            /\ last' = [holder |-> ReadHolderInfo(call[p].firm)] @@ Raised(p, "LockTimeout")
            /\ UNCHANGED tick
            /\ call' = [call EXCEPT ![p] = NoCall]
       ELSE /\ pc' = [pc EXCEPT ![p] = "lock_sleep"]
            /\ UNCHANGED <<last, tick, call>>
    /\ UNCHANGED <<calls, table, counter, audit, year, config, header, flock, sentinel, wb, elapsed>>

\* __enter__: time.sleep(self.retry_interval) takes one retry interval or
\* longer, then the loop tries again
LockSleep(p) ==
    /\ pc[p] = "lock_sleep"
    /\ \E d \in 1..(Timeout(p) - elapsed[p]) :
          elapsed' = [elapsed EXCEPT ![p] = @ + d]
    /\ pc' = [pc EXCEPT ![p] = "lock_try"]
    /\ UNCHANGED <<calls, table, counter, audit, year, config, header, flock, sentinel, call, wb,
                   last, tick>>

\* __exit__: unlock and close the descriptor.  The call returns ret (or
\* the exception goes on to the caller); mark_payment, when it did not
\* raise, goes on to re-read the workbook
LockExit(p) ==
    /\ pc[p] = "lock_exit"
    /\ flock' = Released(p, call[p].firm)
    /\ wb' = [wb EXCEPT ![p] = <<>>]
    /\ IF call[p].op = "pay" /\ call[p].raised = None
       THEN /\ pc' = [pc EXCEPT ![p] = "pay_reread"]
            /\ UNCHANGED <<last, tick, call>>
       ELSE /\ pc' = [pc EXCEPT ![p] = "idle"]
            /\ last' = ReturnedOf(p, call[p], call[p].ret, call[p].raised)
            /\ UNCHANGED tick
            /\ call' = [call EXCEPT ![p] = NoCall]
    /\ UNCHANGED <<calls, table, counter, audit, year, config, header, sentinel, elapsed>>

\* with FirmFileLock(firm_name): a call begins to acquire the lock; it has
\* made no attempt yet
LockEnter(p, c) ==
    /\ pc[p] = "idle"
    /\ call' = [call EXCEPT ![p] = [k \in DOMAIN c \cup {"tried"} |->
                                        IF k = "tried" THEN FALSE ELSE c[k]]]
    /\ elapsed' = [elapsed EXCEPT ![p] = 0]
    /\ pc' = [pc EXCEPT ![p] = "lock_try"]
    /\ UNCHANGED <<table, counter, audit, year, config, header, flock, sentinel, wb, last, tick>>
    /\ calls < MaxCalls /\ calls' = calls + 1

LockSteps(p) ==
    \/ LockTry(p)
    \/ LockTruncate(p)
    \/ LockWrite(p)
    \/ LockDeadline(p)
    \/ LockSleep(p)
    \/ LockExit(p)

----------------------------------------------------------------------------
(* Initial state: init-dataset has created every firm's workbook (header   *)
(* row only); no counter file, no audit log, no lock held.                 *)

InitFiles ==
    /\ counter = [f \in Firms |-> Absent]
    /\ audit = [exists |-> FALSE, lines |-> <<>>]
    /\ year = 2026
    /\ flock = [f \in Firms |-> NoProc]
    /\ sentinel = [f \in Firms |-> None]

InitProcs ==
    /\ pc = [p \in Procs |-> "idle"]
    /\ call = [p \in Procs |-> NoCall]
    /\ wb = [p \in Procs |-> <<>>]
    /\ elapsed = [p \in Procs |-> 0]
    /\ calls = 0

InitObs == last = NoLast /\ tick = FALSE

----------------------------------------------------------------------------
(* SpecStore: one process calling upsert_row, one call after the other.    *)

\* the keys callers pass: two spellings of one index number, and the same
\* index number on another date
StoreKeys ==
    {<<"IDX-1", "2026-01-05">>, <<" idx-1 ", "2026-01-05">>, <<"IDX-1", "2026-01-12">>}

OptionalValues ==
    [case_caption |-> {"Doe v Roe"},
     charge_amount |-> {"150.0", "175.0"}]

\* partial records: the two key fields and any of the optional fields
RowDatas ==
    UNION {UNION {{[c \in {"index_number", "appearance_date"} \cup S |->
                        IF c = "index_number" THEN k[1]
                        ELSE IF c = "appearance_date" THEN k[2]
                        ELSE v[c]] :
                     v \in {w \in [S -> {"Doe v Roe", "150.0", "175.0"}] :
                               \A c \in S : w[c] \in OptionalValues[c]}} :
                  S \in SUBSET (DOMAIN OptionalValues)} :
           k \in StoreKeys}

\* validate_dataset's key of a row: (index_number stripped and lowered, date)
RowKey(row) ==
    <<StripLower(Str(row["index_number"])), Str(row["appearance_date"])>>

\* the same key of a partial record
DataKey(rd) ==
    <<StripLower(Str(Get(rd, "index_number", ""))), Str(Get(rd, "appearance_date", ""))>>

HasKey(rows, rd) == \E i \in 1..Len(rows) : RowKey(rows[i]) = DataKey(rd)

\* upsert_row(firm, row_data), the whole call.  last.again: the call repeats
\* the call before it, which was made on a table without the key; last.first
\* is what that call returned.
SeqUpsert(f, rd) ==
    LET r == upsert_row(table[f], rd)
        again == /\ last.op = "upsert" /\ last.firm = f /\ last.args = rd
                 /\ ~HasKey(last.pre, rd)
    IN  /\ table' = [table EXCEPT ![f] = r.rows]
        /\ last' = [op |-> "upsert", firm |-> f, args |-> rd,
                    pre |-> table[f], ret |-> r.ret,
                    again |-> again, first |-> IF again THEN last.ret ELSE None]
        /\ tick' = ~tick
        /\ UNCHANGED <<calls, counter, audit, year, config, header, flock, sentinel, pc, call, wb, elapsed>>

StoreInit ==
    /\ table = [f \in Firms |-> <<>>]
    /\ config = [yearly_reset |-> TRUE]
    /\ header = [f \in Firms |-> COLUMNS]
    /\ InitFiles /\ InitProcs /\ InitObs

StoreNext == \E rd \in RowDatas : SeqUpsert(MainFirm, rd)

SpecStore == StoreInit /\ [][StoreNext]_vars

\* the row a partial record describes: its fields, every other field empty
RowOf(rd) == [c \in Headers |-> IF c \in DOMAIN rd THEN rd[c] ELSE None]

\* C7: an upsert of a partial record whose key the table does not hold
\* returns "inserted", appends exactly one row, leaves the rows before it as
\* they were, and find_row_by_key of that key then returns the supplied
\* fields with every other field empty.
C7_InsertOnNewKey ==
    (last.op = "upsert" /\ ~HasKey(last.pre, last.args)) =>
        /\ last.ret = "inserted"
        /\ Len(table[last.firm]) = Len(last.pre) + 1
        /\ SubSeq(table[last.firm], 1, Len(last.pre)) = last.pre
        /\ find_row_by_key(table[last.firm], last.args["index_number"],
                           last.args["appearance_date"]) = RowOf(last.args)

\* an insert into a table that already holds a row, of a record that leaves
\* charge_amount unspecified
C7_Witness ==
    /\ last.op = "upsert" /\ ~HasKey(last.pre, last.args)
    /\ Len(last.pre) = 1
    /\ "charge_amount" \notin DOMAIN last.args
    /\ "case_caption" \in DOMAIN last.args

\* C8: an upsert of a partial record whose key the table holds returns
\* "updated"; the row count and every other row are unchanged; in the matched
\* row every field the record does not name keeps its value and every field
\* it names reads back (find_row_by_key) as supplied.
C8_UpdateOnExistingKey ==
    (last.op = "upsert" /\ HasKey(last.pre, last.args)) =>
        /\ last.ret = "updated"
        /\ Len(table[last.firm]) = Len(last.pre)
        /\ \E i \in 1..Len(last.pre) :
              /\ RowKey(last.pre[i]) = DataKey(last.args)
              /\ \A j \in 1..Len(last.pre) :
                    j # i => table[last.firm][j] = last.pre[j]
              /\ \A c \in Headers \ DOMAIN last.args :
                    table[last.firm][i][c] = last.pre[i][c]
        /\ \A c \in DOMAIN last.args :
              find_row_by_key(table[last.firm], last.args["index_number"],
                              last.args["appearance_date"])[c] = last.args[c]

\* an update of the second of two rows that replaces one charge_amount by
\* another and does not name case_caption, which the row holds
C8_Witness ==
    /\ last.op = "upsert" /\ HasKey(last.pre, last.args)
    /\ Len(last.pre) = 2
    /\ RowKey(last.pre[2]) = DataKey(last.args)
    /\ "case_caption" \notin DOMAIN last.args
    /\ last.pre[2]["case_caption"] = "Doe v Roe"
    /\ "charge_amount" \in DOMAIN last.args
    /\ last.pre[2]["charge_amount"] = "150.0"
    /\ last.args["charge_amount"] = "175.0"

\* C9: upsert called twice in a row with the same partial record, the first
\* time on a table without its key, returns "inserted" and then "updated";
\* the second call leaves the table as the first left it, with exactly one
\* row of that key.
C9_UpsertTwice ==
    (last.op = "upsert" /\ last.again) =>
        /\ last.first = "inserted"
        /\ last.ret = "updated"
        /\ table[last.firm] = last.pre
        /\ Cardinality({i \in 1..Len(table[last.firm]) :
                           RowKey(table[last.firm][i]) = DataKey(last.args)}) = 1

\* the second of two identical calls has returned, on a table of two rows
C9_Witness ==
    /\ last.op = "upsert" /\ last.again
    /\ Len(table[last.firm]) = 2
    /\ "charge_amount" \in DOMAIN last.args

----------------------------------------------------------------------------
(* SpecCounter: one process calling next_invoice_number, one call after    *)
(* the other, while the calendar year advances.                            *)

\* the counter never goes past MaxNumber, the calendar not past MaxYear
MaxNumber == 3
MaxYear == 2028

\* next_invoice_number(firm, config), the whole call.  last.seen[g] is the
\* calendar year and the sequence number of the latest call for firm g.
SeqNext(f) ==
    LET r == next_invoice_number(counter[f], year, config.yearly_reset, Initials[f])
        seen == IF last.op = "next" THEN last.seen ELSE [g \in Firms |-> Absent]
    IN  /\ r.number <= MaxNumber
        /\ counter' = [counter EXCEPT ![f] = r.counter]
        /\ last' = [op |-> "next", firm |-> f, at |-> year, pre |-> counter[f],
                    ret |-> r.ret, number |-> r.number, before |-> seen[f],
                    seen |-> [seen EXCEPT ![f] = [at |-> year, number |-> r.number]]]
        /\ tick' = ~tick
        /\ UNCHANGED <<calls, table, audit, year, config, header, flock, sentinel, pc, call, wb, elapsed>>

\* the new year begins
NewYear ==
    /\ year < MaxYear
    /\ year' = year + 1
    /\ UNCHANGED <<calls, table, counter, audit, config, header, flock, sentinel, pc, call, wb,
                   elapsed, last, tick>>

CounterInit ==
    /\ table = [f \in Firms |-> <<>>]
    /\ config \in [yearly_reset : BOOLEAN]
    /\ header = [f \in Firms |-> COLUMNS]
    /\ InitFiles /\ InitProcs /\ InitObs

CounterNext == (\E f \in Firms : SeqNext(f)) \/ NewYear

SpecCounter == CounterInit /\ [][CounterNext]_vars

\* C4: of two successive calls of next for one firm in one calendar year the
\* second returns the sequence number of the first plus one, and after every
\* call the stored last_number is the number just returned.
C4_NextIsPreviousPlusOne ==
    last.op = "next" =>
        /\ counter[last.firm] # Absent
        /\ counter[last.firm].last_number = last.number
        /\ (last.before # Absent /\ last.before.at = last.at) =>
                last.number = last.before.number + 1

\* the third call in a row for a firm in the year after the year of its
\* first calls
C4_Witness ==
    /\ last.op = "next"
    /\ last.before # Absent /\ last.before.at = last.at
    /\ last.at = 2027
    /\ last.before.number >= 2

\* C6: with yearly_reset, a call of next made when the stored year is not
\* the calendar year stores the calendar year and returns number 1; a call
\* made when the stored year is the calendar year continues the sequence.
C6_YearlyReset ==
    (last.op = "next" /\ last.pre # Absent) =>
        /\ (config.yearly_reset /\ last.pre.year # last.at) =>
              /\ counter[last.firm] = [year |-> last.at, last_number |-> 1]
              /\ last.number = 1
              /\ last.ret = FormatInvoice(Initials[last.firm], last.at, 1)
        /\ last.pre.year = last.at =>
              /\ counter[last.firm] = [year |-> last.at,
                                       last_number |-> last.pre.last_number + 1]
              /\ last.number = last.pre.last_number + 1

\* a call that reset a counter of the year before, which had reached 2
C6_Witness ==
    /\ last.op = "next" /\ last.pre # Absent
    /\ config.yearly_reset
    /\ last.pre.year # last.at
    /\ last.pre.last_number >= 2
    /\ last.ret = "AL2027001"

----------------------------------------------------------------------------
(* SpecEdit: one process editing fields of one case, one call after the    *)
(* other; at some point the invoice of the case is marked as sent.         *)

\* the audit log never holds more than MaxAudit entries
MaxAudit == 2

EditKeys == {<<"IDX-1", "2026-01-05">>, <<"IDX-2", "2026-01-05">>}

EditValues ==
    [charge_amount |-> {"200.00", "abc"},
     case_status |-> {"Closed", "Pending"},
     paid_status |-> {"Paid"}]

EditReasons == {None, "", "client asked"}

\* the lines of the log that are entries
AuditEntries(log) == SelectSeq(log.lines, LAMBDA l : l # AUDIT_COLUMNS)

\* edit_case_field(firm, index_number, appearance_date, field_name,
\* new_value, reason), the whole call
SeqEditField(f, index_number, appearance_date, field_name, new_value, reason) ==
    LET chk == EditCheck(table[f], index_number, appearance_date, field_name,
                         new_value, reason)
        up == upsert_row(table[f],
                         EditRowData(index_number, appearance_date, field_name,
                                     chk.coerced))
        row == AuditRow(f, index_number, appearance_date,
                        EDITABLE_FIELDS[field_name], field_name, chk.old_value,
                        chk.coerced, reason)
        args == [index_number |-> index_number, appearance_date |-> appearance_date,
                 field_name |-> field_name, new_value |-> new_value,
                 reason |-> reason]
    IN  /\ IF Writes(chk)
           THEN /\ Len(AuditEntries(audit)) < MaxAudit
                /\ table' = [table EXCEPT ![f] = up.rows]
                /\ audit' = append_audit(audit, row)
           ELSE UNCHANGED <<table, audit>>
        /\ last' = [op |-> "edit", firm |-> f, args |-> args, pre |-> table[f],
                    log |-> audit,
                    ret |-> [success |-> chk.ok, error |-> chk.error,
                             old_value |-> chk.old_value, new_value |-> chk.coerced]]
        /\ tick' = ~tick
        /\ UNCHANGED <<calls, counter, year, config, header, flock, sentinel, pc, call, wb, elapsed>>

\* the invoice of the case is sent: upsert_row sets invoice_sent_date
SeqMarkSent(f) ==
    SeqUpsert(f, [index_number |-> "IDX-1", appearance_date |-> "2026-01-05",
                  invoice_sent_date |-> "2026-02-01"])

EditInit ==
    /\ table = [f \in Firms |->
                  IF f = MainFirm
                  THEN <<RowOf([index_number |-> "IDX-1",
                                appearance_date |-> "2026-01-05",
                                case_caption |-> "Doe v Roe",
                                charge_amount |-> "150.0"])>>
                  ELSE <<>>]
    /\ config = [yearly_reset |-> TRUE]
    /\ header = [f \in Firms |-> COLUMNS]
    /\ InitFiles /\ InitProcs /\ InitObs

EditNext ==
    \/ \E k \in EditKeys, fld \in DOMAIN EditValues, r \in EditReasons :
          \E v \in EditValues[fld] : SeqEditField(MainFirm, k[1], k[2], fld, v, r)
    \/ SeqMarkSent(MainFirm)

SpecEdit == EditInit /\ [][EditNext]_vars

\* the row of the table the call addresses had its invoice sent
SentBefore(l) ==
    \E i \in 1..Len(l.pre) :
        /\ RowKey(l.pre[i]) = DataKey(l.args)
        /\ l.pre[i]["invoice_sent_date"] # None

\* the call addresses a row of the table, whose invoice was not sent
UnsentBefore(l) ==
    \E i \in 1..Len(l.pre) :
        /\ RowKey(l.pre[i]) = DataKey(l.args)
        /\ l.pre[i]["invoice_sent_date"] = None

\* the log gained exactly one entry, which carries this reason
OneEntryWith(l, reason) ==
    /\ Len(AuditEntries(audit)) = Len(AuditEntries(l.log)) + 1
    /\ SubSeq(AuditEntries(audit), 1, Len(AuditEntries(l.log))) = AuditEntries(l.log)
    /\ AuditEntries(audit)[Len(AuditEntries(audit))][10] = reason
    /\ AuditEntries(audit)[Len(AuditEntries(audit))][7] = l.args.field_name

\* C10: an edit of charge_amount (to a number) on a record whose invoice was
\* sent fails with ReasonRequired when the reason is None or empty, and with
\* a non-empty reason succeeds and adds exactly one audit entry carrying the
\* reason; on a record whose invoice was not sent it succeeds without reason.
C10_ReasonEnforced ==
    (last.op = "edit" /\ last.args.field_name = "charge_amount"
        /\ IsFloat(last.args.new_value)) =>
        /\ (SentBefore(last) /\ last.args.reason \in {None, ""}) =>
              /\ ~last.ret.success
              /\ last.ret.error = "ReasonRequired"
        /\ (SentBefore(last) /\ last.args.reason \notin {None, ""}) =>
              /\ last.ret.success
              /\ OneEntryWith(last, last.args.reason)
        /\ (UnsentBefore(last) /\ last.args.reason \in {None, ""}) =>
              /\ last.ret.success
              /\ OneEntryWith(last, "")

\* a charge edit with a reason, after the invoice was sent, has added the
\* second entry of the log
C10_Witness ==
    /\ last.op = "edit" /\ last.args.field_name = "charge_amount"
    /\ SentBefore(last)
    /\ last.args.reason = "client asked"
    /\ last.ret.success
    /\ Len(AuditEntries(audit)) = 2

\* C11: an editField call that fails (field not in the allow-list, case not
\* found, ReasonRequired, non-numeric charge_amount, case_status outside the
\* allowed set) leaves the table of the firm and the audit log as they were
\* before the call.
C11_FailedEditChangesNothing ==
    (last.op = "edit" /\ ~last.ret.success) =>
        /\ last.ret.error \in {"FieldNotFound", "CaseNotFound", "ReasonRequired",
                                "ValidationFailed"}
        /\ table[last.firm] = last.pre
        /\ audit = last.log

\* a non-numeric charge_amount was refused on a case that an earlier edit
\* had changed
C11_Witness ==
    /\ last.op = "edit" /\ ~last.ret.success
    /\ last.ret.error = "ValidationFailed"
    /\ last.args.field_name = "charge_amount"
    /\ Len(AuditEntries(last.log)) = 1

----------------------------------------------------------------------------
(* SpecLock: processes that take and release the locks of the firms.       *)

\* the body of the with statement ends (normally or by an exception)
LockBody(p) ==
    /\ pc[p] = "locked" /\ call[p].op = "lock"
    /\ pc' = [pc EXCEPT ![p] = "lock_exit"]
    /\ UNCHANGED <<calls, table, counter, audit, year, config, header, flock, sentinel, call, wb,
                   elapsed, last, tick>>

\* __enter__: ftruncate or write raises OSError after the lock was taken; the
\* except branch closes the descriptor, which releases the lock
LockWriteFails(p) ==
    /\ pc[p] \in {"lock_truncate", "lock_write"}
    /\ flock' = Released(p, call[p].firm)
    /\ pc' = [pc EXCEPT ![p] = "lock_deadline"]
    /\ UNCHANGED <<calls, table, counter, audit, year, config, header, sentinel, call, wb,
                   elapsed, last, tick>>

LockInit ==
    /\ table = [f \in Firms |-> <<>>]
    /\ config = [yearly_reset |-> TRUE]
    /\ header = [f \in Firms |-> COLUMNS]
    /\ InitFiles /\ InitProcs /\ InitObs

\* the processes take and release the locks of the firms in F, with
\* timeout 0 or the default
LockNextOn(F) ==
    \E p \in Procs :
        \/ \E f \in F : \E t \in {0, TimeoutIntervals} :
              LockEnter(p, [op |-> "lock", firm |-> f, ret |-> None,
                            raised |-> None, timeout |-> t])
        \/ LockSteps(p)
        \/ LockBody(p)
        \/ LockWriteFails(p)

LockNext == LockNextOn(Firms)

SpecLock == LockInit /\ [][LockNext]_vars

\* p is between a successful lock attempt and the close of its descriptor
InLock(p, f) ==
    /\ pc[p] \in {"lock_truncate", "lock_write", "locked", "lock_exit"}
    /\ call[p].firm = f

\* C1: at no time do two processes hold the lock of one firm: an attempt
\* succeeds only when no other process holds it, and a call that never got
\* the lock ends in LockTimeout.
C1_MutualExclusion ==
    /\ \A f \in Firms : Cardinality({p \in Procs : InLock(p, f)}) <= 1
    /\ \A p \in Procs : \A f \in Firms : InLock(p, f) => Holds(p, f)

\* one process holds the lock of a firm for which another has just ended
\* in LockTimeout
C1_Witness ==
    /\ last.op = "lock" /\ last.raised = "LockTimeout"
    /\ \E p \in Procs : pc[p] = "locked" /\ call[p].firm = last.firm /\ p # last.proc

\* C14: a lock attempt for a firm whose lock nobody holds succeeds, whatever
\* the state of the lock of the other firm and whoever waits for it; in
\* particular the first attempt of a call does.
C14_LocksAreIndependent ==
    [][\A p \in Procs :
          (/\ pc[p] = "lock_try" /\ pc'[p] # "lock_try"
           /\ \A q \in Procs \ {p} : ~InLock(q, call[p].firm)) =>
              /\ pc'[p] = "lock_truncate"
              /\ Holds(p, call[p].firm)'
      ]_vars

\* a process has taken the lock of one firm at its first attempt while the
\* other process holds the lock of the other firm
C14_Witness ==
    \E p \in Procs : \E q \in Procs \ {p} :
        /\ pc[p] = "locked" /\ pc[q] = "lock_truncate"
        /\ call[p].firm # call[q].firm
        /\ elapsed[q] = 0

\* SpecLockFair: the processes contend for the lock of one firm.  A process
\* that has begun __enter__ goes on executing it (the loop has no blocking
\* call but time.sleep, which returns); a holder need not ever leave the
\* with block.
SpecLockFair ==
    /\ LockInit /\ [][LockNextOn({MainFirm})]_vars
    /\ \A p \in Procs :
          /\ WF_vars(LockTry(p))
          /\ WF_vars(LockTruncate(p))
          /\ WF_vars(LockWrite(p))
          /\ WF_vars(LockDeadline(p))
          /\ WF_vars(LockSleep(p))

\* p is in __enter__
Acquiring(p) ==
    pc[p] \in {"lock_try", "lock_truncate", "lock_write", "lock_deadline", "lock_sleep"}

\* the firm of the call p runs
FirmOf(p) == IF "firm" \in DOMAIN call[p] THEN call[p].firm ELSE None

\* the last call that ended is one of p, and it ended in LockTimeout
TimedOut(p) ==
    /\ "raised" \in DOMAIN last /\ last.raised = "LockTimeout"
    /\ last.proc = p

\* C15: every acquire ends, holding the lock or with LockTimeout; while
\* another process keeps the lock of the firm, it ends with LockTimeout;
\* LockTimeout is raised only after an attempt was made and the deadline
\* has passed, also when the timeout is 0.
C15_AcquireTerminates ==
    /\ \A p \in Procs : Acquiring(p) ~> (pc[p] \in {"locked", "idle"})
    /\ \A p \in Procs : \A q \in Procs \ {p} : \A f \in Firms :
          ((Acquiring(p) /\ FirmOf(p) = f) /\ [](pc[q] = "locked" /\ FirmOf(q) = f))
              ~> (pc[p] = "idle" /\ TimedOut(p))
    /\ [][\A p \in Procs :
            (Acquiring(p) /\ pc'[p] = "idle") =>
                /\ pc[p] = "lock_deadline"
                /\ call[p].tried
                /\ elapsed[p] >= Timeout(p)
                /\ last'.raised = "LockTimeout" /\ last'.proc = p
        ]_vars

\* a call with timeout 0 has ended in LockTimeout, without having slept,
\* while the other process holds the lock of the firm
C15_Witness ==
    /\ last.op = "lock" /\ last.raised = "LockTimeout"
    /\ elapsed[last.proc] = 0
    /\ \E q \in Procs : pc[q] = "locked" /\ call[q].firm = last.firm

----------------------------------------------------------------------------
(* Spec: processes calling upsert_row, edit_case_field,                    *)
(* assign_invoice_numbers and mark_payment on one firm at the same time.   *)
(* A step is one access to a file (a load, a save, an append) with the     *)
(* computation that follows it; the calendar year does not change.         *)

\* the partial records the processes upsert: two spellings of one key, and
\* a second key
ConcRowDatas ==
    {[index_number |-> "IDX-1", appearance_date |-> "2026-01-05",
      charge_amount |-> "150.0"],
     [index_number |-> " idx-1 ", appearance_date |-> "2026-01-05"],
     [index_number |-> "IDX-2", appearance_date |-> "2026-01-05"]}

\* the counter never goes past MaxIssued
MaxIssued == 2

\* the edits the processes make
ConcEdits ==
    {[index_number |-> "idx-1", appearance_date |-> "2026-01-05",
      field_name |-> "charge_amount", new_value |-> "200.00", reason |-> None]}

\* the payments the processes mark
ConcPayments == {[invoice_number |-> "AL2026001", status |-> "Paid"]}

\* date.today() as the workbook stores it
Today == ToString(year) \o "-01-20"

\* payment.py _match_invoice_row: the position of the first row with the
\* invoice number, 0 for None
MatchInvoiceRow(rows, invoice_number) ==
    LET hits == {i \in 1..Len(rows) :
                    Strip(OrEmpty(rows[i]["invoice_number"])) = Strip(invoice_number)}
    IN  IF hits = {} THEN 0 ELSE CHOOSE i \in hits : \A j \in hits : i <= j

\* mark_payment without payment_date and notes: the cells it sets
PayUpdate(row, status) ==
    [row EXCEPT !["paid_status"] = status,
                !["payment_date"] = IF status = "Paid" /\ @ = None THEN Today ELSE @]

\* assign_invoice_numbers: the rows of the loaded sheet that lack a number
LacksInvoice(rows) ==
    {i \in 1..Len(rows) :
        /\ ~IsBlank(rows[i])
        /\ \/ rows[i]["invoice_number"] = None
           \/ Strip(Str(rows[i]["invoice_number"])) = ""}

\* the edits under way
EditsUnderWay == Cardinality({q \in Procs : call[q].op = "edit"})

\* upsert_row: load_workbook(path)
UpsertLoad(p, rd) ==
    /\ pc[p] = "idle"
    /\ call' = [call EXCEPT ![p] = [op |-> "upsert", firm |-> MainFirm, row_data |-> rd]]
    /\ wb' = [wb EXCEPT ![p] = table[MainFirm]]
    /\ pc' = [pc EXCEPT ![p] = "upsert_save"]
    /\ UNCHANGED <<table, counter, audit, year, config, header, flock, sentinel, elapsed,
                   last, tick>>
    /\ calls < MaxCalls /\ calls' = calls + 1

\* upsert_row: the update or the append on the loaded workbook, wb.save(path)
UpsertSave(p) ==
    LET r == upsert_row(wb[p], call[p].row_data)
    IN  /\ pc[p] = "upsert_save"
        /\ table' = [table EXCEPT ![call[p].firm] = r.rows]
        /\ last' = Returned(p, r.ret)
        /\ UNCHANGED tick
        /\ call' = [call EXCEPT ![p] = NoCall]
        /\ wb' = [wb EXCEPT ![p] = <<>>]
        /\ pc' = [pc EXCEPT ![p] = "idle"]
        /\ UNCHANGED <<calls, counter, audit, year, config, header, flock, sentinel, elapsed>>

\* edit_case_field: the checks on the rows find_row_by_key loads; a failed
\* check returns the error
EditFind(p, f, e) ==
    LET chk == EditCheck(table[f], e.index_number, e.appearance_date,
                         e.field_name, e.new_value, e.reason)
        c == [op |-> "edit", firm |-> f, args |-> e,
              old_value |-> chk.old_value, coerced |-> chk.coerced,
              saved |-> FALSE, file_exists |-> FALSE]
    IN  /\ pc[p] = "idle"
        /\ Len(AuditEntries(audit)) + EditsUnderWay < MaxAudit
        /\ IF Writes(chk)
           THEN /\ call' = [call EXCEPT ![p] = c]
                /\ pc' = [pc EXCEPT ![p] = "edit_load"]
                /\ UNCHANGED <<last, tick>>
           ELSE /\ last' = ReturnedOf(p, c, [success |-> FALSE, error |-> chk.error], None)
                /\ UNCHANGED tick
                /\ UNCHANGED <<call, pc>>
        /\ UNCHANGED <<table, counter, audit, year, config, header, flock, sentinel, wb,
                       elapsed>>
        /\ calls < MaxCalls /\ calls' = calls + 1

\* edit_case_field, in upsert_row: load_workbook(path)
EditLoad(p) ==
    /\ pc[p] = "edit_load"
    /\ wb' = [wb EXCEPT ![p] = table[call[p].firm]]
    /\ pc' = [pc EXCEPT ![p] = "edit_save"]
    /\ UNCHANGED <<calls, table, counter, audit, year, config, header, flock, sentinel, call,
                   elapsed, last, tick>>

\* edit_case_field, in upsert_row: the update on the loaded workbook and
\* wb.save(path)
EditSave(p) ==
    LET e == call[p].args
        r == upsert_row(wb[p], EditRowData(e.index_number, e.appearance_date,
                                           e.field_name, call[p].coerced))
    IN  /\ pc[p] = "edit_save"
        /\ table' = [table EXCEPT ![call[p].firm] = r.rows]
        /\ wb' = [wb EXCEPT ![p] = <<>>]
        /\ call' = [call EXCEPT ![p].saved = TRUE]
        /\ pc' = [pc EXCEPT ![p] = "audit_exists"]
        /\ UNCHANGED <<calls, counter, audit, year, config, header, flock, sentinel, elapsed,
                       last, tick>>

\* append_audit: file_exists = log_path.exists()
AuditExists(p) ==
    /\ pc[p] = "audit_exists"
    /\ call' = [call EXCEPT ![p].file_exists = audit.exists]
    /\ pc' = [pc EXCEPT ![p] = "audit_write"]
    /\ UNCHANGED <<calls, table, counter, audit, year, config, header, flock, sentinel, wb,
                   elapsed, last, tick>>

\* append_audit: open(log_path, "a"), the header when the file did not
\* exist, the row; edit_case_field returns success
AuditWrite(p) ==
    LET e == call[p].args
        row == AuditRow(call[p].firm, e.index_number, e.appearance_date,
                        EDITABLE_FIELDS[e.field_name], e.field_name,
                        call[p].old_value, call[p].coerced, e.reason)
    IN  /\ pc[p] = "audit_write"
        /\ audit' = append_audit([exists |-> call[p].file_exists,
                                  lines |-> audit.lines], row)
        /\ last' = Returned(p, [success |-> TRUE, error |-> None])
        /\ UNCHANGED tick
        /\ call' = [call EXCEPT ![p] = NoCall]
        /\ pc' = [pc EXCEPT ![p] = "idle"]
        /\ UNCHANGED <<calls, table, counter, year, config, header, flock, sentinel, wb, elapsed>>

\* assign_invoice_numbers: with FirmFileLock(firm_name)
AssignEnter(p) ==
    LockEnter(p, [op |-> "assign", firm |-> MainFirm, ret |-> <<>>,
                  raised |-> None, counter |-> Absent])

\* assign_invoice_numbers: load_workbook(path)
AssignLoad(p) ==
    /\ pc[p] = "locked" /\ call[p].op = "assign"
    /\ wb' = [wb EXCEPT ![p] = table[call[p].firm]]
    /\ pc' = [pc EXCEPT ![p] = "assign_next"]
    /\ UNCHANGED <<calls, table, counter, audit, year, config, header, flock, sentinel, call,
                   elapsed, last, tick>>

\* assign_invoice_numbers reaches a row without a number;
\* next_invoice_number: _load_counter
AssignCounterLoad(p) ==
    /\ pc[p] = "assign_next"
    /\ LacksInvoice(wb[p]) # {}
    /\ LoadCounter(counter[call[p].firm], year).last_number < MaxIssued
    /\ call' = [call EXCEPT ![p].counter = LoadCounter(counter[call[p].firm], year)]
    /\ pc' = [pc EXCEPT ![p] = "counter_save"]
    /\ UNCHANGED <<calls, table, counter, audit, year, config, header, flock, sentinel, wb,
                   elapsed, last, tick>>

\* next_invoice_number: the reset, the increment, _save_counter, the format;
\* assign_invoice_numbers sets the cell and appends to assigned
AssignCounterSave(p) ==
    LET f == call[p].firm
        i == CHOOSE i \in LacksInvoice(wb[p]) : \A j \in LacksInvoice(wb[p]) : i <= j
        r == IncrementAndFormat(YearlyReset(call[p].counter, year, config.yearly_reset),
                                Initials[f])
    IN  /\ pc[p] = "counter_save"
        /\ counter' = [counter EXCEPT ![f] = r.counter]
        /\ wb' = [wb EXCEPT ![p][i]["invoice_number"] = r.ret]
        /\ call' = [call EXCEPT ![p].ret = Append(@, r.ret)]
        /\ last' = [last EXCEPT !.issued = Append(@, r.ret)]
        /\ pc' = [pc EXCEPT ![p] = "assign_next"]
        /\ UNCHANGED <<calls, table, audit, year, config, header, flock, sentinel, elapsed, tick>>

\* assign_invoice_numbers: the loop is over, wb.save(path)
AssignSave(p) ==
    /\ pc[p] = "assign_next"
    /\ LacksInvoice(wb[p]) = {}
    /\ table' = [table EXCEPT ![call[p].firm] = wb[p]]
    /\ pc' = [pc EXCEPT ![p] = "lock_exit"]
    /\ UNCHANGED <<calls, counter, audit, year, config, header, flock, sentinel, call, wb, elapsed,
                   last, tick>>

\* mark_payment with a valid status: with FirmFileLock(firm_name)
PayEnter(p, pay) ==
    LockEnter(p, [op |-> "pay", firm |-> MainFirm, ret |-> None, raised |-> None,
                  invoice_number |-> pay.invoice_number, status |-> pay.status,
                  row_num |-> 0])

\* mark_payment: load_workbook(path), _match_invoice_row and the cells set
\* on the loaded workbook; ValueError when the invoice is not found
PayLoad(p) ==
    LET rows == table[call[p].firm]
        row_num == MatchInvoiceRow(rows, call[p].invoice_number)
    IN  /\ pc[p] = "locked" /\ call[p].op = "pay"
        /\ IF row_num = 0
           THEN /\ call' = [call EXCEPT ![p].raised = "ValueError"]
                /\ pc' = [pc EXCEPT ![p] = "lock_exit"]
                /\ UNCHANGED wb
           ELSE /\ call' = [call EXCEPT ![p].row_num = row_num]
                /\ wb' = [wb EXCEPT ![p] =
                             [rows EXCEPT ![row_num] = PayUpdate(@, call[p].status)]]
                /\ pc' = [pc EXCEPT ![p] = "pay_save"]
        /\ UNCHANGED <<calls, table, counter, audit, year, config, header, flock, sentinel, elapsed,
                       last, tick>>

\* mark_payment: wb.save(path)
PaySave(p) ==
    /\ pc[p] = "pay_save"
    /\ table' = [table EXCEPT ![call[p].firm] = wb[p]]
    /\ pc' = [pc EXCEPT ![p] = "lock_exit"]
    /\ UNCHANGED <<calls, counter, audit, year, config, header, flock, sentinel, call, wb, elapsed,
                   last, tick>>

\* mark_payment, after the with block: the row at row_num of the workbook as
\* it is now is returned
PayReread(p) ==
    LET rows == table[call[p].firm]
        n == call[p].row_num
    IN  /\ pc[p] = "pay_reread"
        /\ last' = Returned(p, IF n <= Len(rows) THEN rows[n] ELSE BlankRow)
        /\ UNCHANGED tick
        /\ call' = [call EXCEPT ![p] = NoCall]
        /\ pc' = [pc EXCEPT ![p] = "idle"]
        /\ UNCHANGED <<calls, table, counter, audit, year, config, header, flock, sentinel, wb,
                       elapsed>>

Init ==
    /\ table = [f \in Firms |-> <<>>]
    /\ config = [yearly_reset |-> TRUE]
    /\ header = [f \in Firms |-> COLUMNS]
    /\ InitFiles /\ InitProcs
    /\ last = [op |-> "none", firm |-> None, proc |-> NoProc, ret |-> None,
               raised |-> None, issued |-> <<>>]
    /\ tick = FALSE

Next ==
    \E p \in Procs :
        \/ \E rd \in ConcRowDatas : UpsertLoad(p, rd)
        \/ UpsertSave(p)
        \/ \E e \in ConcEdits : EditFind(p, MainFirm, e)
        \/ EditLoad(p)
        \/ EditSave(p)
        \/ AuditExists(p)
        \/ AuditWrite(p)
        \/ AssignEnter(p)
        \/ AssignLoad(p)
        \/ AssignCounterLoad(p)
        \/ AssignCounterSave(p)
        \/ AssignSave(p)
        \/ \E pay \in ConcPayments : PayEnter(p, pay)
        \/ PayLoad(p)
        \/ PaySave(p)
        \/ PayReread(p)
        \/ LockSteps(p)

Spec == Init /\ [][Next]_vars

\* p is between the load and the save of the table file of firm f
InSection(p, f) ==
    /\ pc[p] \in {"upsert_save", "edit_save", "assign_next", "counter_save", "pay_save"}
    /\ call[p].firm = f

\* C2: the load-modify-save sections of two processes on the table file of
\* one firm never overlap, and a process is in such a section only while
\* it holds the lock of the firm.
C2_SectionsUnderLock ==
    \A f \in Firms :
        /\ \A p \in Procs : InSection(p, f) => Holds(p, f)
        /\ Cardinality({p \in Procs : InSection(p, f)}) <= 1

\* no two rows have the key
KeysUnique(rows) ==
    \A i \in 1..Len(rows) : \A j \in 1..Len(rows) :
        i # j => RowKey(rows[i]) # RowKey(rows[j])

\* C3: at every point of every interleaving of upsert, editField,
\* assignMissing and mark-payment, no two rows of a firm's table have the
\* same key, compared as _match_key compares it (index_number stripped and
\* case-folded, appearance_date as a string); rows that differ in that key
\* differ in the case-insensitive key.
C3_KeysStayUnique == \A f \in Firms : KeysUnique(table[f])

\* an upsert that loaded the table before a number was assigned has just
\* saved over the assignment: it inserted its row into a table of one row,
\* which now has two rows, neither with a number
C3_Witness ==
    /\ last.op = "upsert" /\ last.ret = "inserted"
    /\ Len(last.issued) >= 1
    /\ Len(table[MainFirm]) = 2
    /\ \A i \in 1..2 : table[MainFirm][i]["invoice_number"] = None

NoRepeat(seq) == \A i \in 1..Len(seq) : \A j \in 1..Len(seq) : i # j => seq[i] # seq[j]

\* the invoice numbers in the rows
TableNumbers(rows) ==
    LET withNumber == SelectSeq(rows, LAMBDA r : r["invoice_number"] # None)
    IN  [i \in 1..Len(withNumber) |-> withNumber[i]["invoice_number"]]

LastNumber(c) == IF c = Absent THEN 0 ELSE c.last_number

\* C5: within one year no invoice number is issued twice (the numbers a
\* call returns are the ones issued to it), no number is in two rows of the
\* table, and no step lowers the stored last_number of a firm.
C5_NoDuplicateNumbers ==
    /\ [](/\ NoRepeat(last.issued)
          /\ \A p \in Procs :
                call[p].op = "assign" =>
                    /\ NoRepeat(call[p].ret)
                    /\ \A i \in 1..Len(call[p].ret) :
                          \E j \in 1..Len(last.issued) : last.issued[j] = call[p].ret[i]
          /\ \A f \in Firms : NoRepeat(TableNumbers(table[f])))
    /\ [][\A f \in Firms : LastNumber(counter'[f]) >= LastNumber(counter[f])]_vars

\* a process is between loading and saving the counter for the second
\* number while the other process, which also calls assignMissing, has
\* waited for the lock
C5_Witness ==
    \E p \in Procs : \E q \in Procs \ {p} :
        /\ pc[p] = "counter_save"
        /\ Len(last.issued) = 1
        /\ call[q].op = "assign"
        /\ pc[q] \in {"lock_try", "lock_deadline", "lock_sleep"}
        /\ elapsed[q] >= 1

\* the members of a sequence
\* C18: once a record's invoice_number is non-blank, no later step of any
\* operation (assign, edit, mark-payment, upsert) changes it: the record stays
\* at its position in the firm's table and keeps the number it was given.
C18_InvoiceNumberAssignedOnce ==
    [][\A f \in Firms : \A i \in 1..Len(table[f]) :
          table[f][i].invoice_number # None =>
              /\ i <= Len(table'[f])
              /\ table'[f][i].invoice_number = table[f][i].invoice_number]_vars

Range(seq) == {seq[i] : i \in 1..Len(seq)}

\* p runs assign_invoice_numbers and has the lock: it is in the with block
\* or in __exit__
AssignHasLock(p) ==
    /\ call[p].op = "assign"
    /\ pc[p] \in {"locked", "assign_next", "counter_save", "lock_exit"}

\* C17: when assignMissing is about to return (the table is saved, the lock
\* not yet released), every non-blank row of the table has a non-blank
\* invoice_number; the list it returns holds consecutive sequence numbers
\* ending at the stored last_number, and they are in the table in the order
\* of the list; from the load of the table to the release the process holds
\* the lock of the firm.
C17_AssignResult ==
    \A p \in Procs :
        /\ AssignHasLock(p) => Holds(p, call[p].firm)
        /\ (call[p].op = "assign" /\ pc[p] = "lock_exit") =>
              LET f == call[p].firm
                  ret == call[p].ret
              IN  /\ LacksInvoice(table[f]) = {}
                  /\ ret = [i \in 1..Len(ret) |->
                              FormatInvoice(Initials[f], year,
                                            LastNumber(counter[f]) - Len(ret) + i)]
                  /\ SelectSeq(TableNumbers(table[f]), LAMBDA n : n \in Range(ret)) = ret

----------------------------------------------------------------------------
(* SpecAudit: processes calling edit_case_field on the cases of two firms  *)
(* at the same time; a save of the workbook can fail.                      *)

\* the edits the processes make on either firm: two that pass the checks
\* and one that fails validation
AuditEdits ==
    {[index_number |-> "IDX-1", appearance_date |-> "2026-01-05",
      field_name |-> "charge_amount", new_value |-> "200.00",
      reason |-> "client asked"],
     [index_number |-> "IDX-1", appearance_date |-> "2026-01-05",
      field_name |-> "case_status", new_value |-> "Closed", reason |-> None],
     [index_number |-> "IDX-1", appearance_date |-> "2026-01-05",
      field_name |-> "case_status", new_value |-> "Pending", reason |-> None]}

\* edit_case_field, in upsert_row: wb.save(path) raises (the file is open
\* elsewhere, the disk is full); the exception ends the call
EditSaveFails(p) ==
    /\ pc[p] = "edit_save"
    /\ last' = Raised(p, "OSError")
    /\ call' = [call EXCEPT ![p] = NoCall]
    /\ wb' = [wb EXCEPT ![p] = <<>>]
    /\ pc' = [pc EXCEPT ![p] = "idle"]
    /\ UNCHANGED <<calls, table, counter, audit, year, config, header, flock, sentinel,
                   elapsed, tick>>

AuditInit ==
    /\ table = [f \in Firms |->
                  <<RowOf([index_number |-> "IDX-1",
                           appearance_date |-> "2026-01-05",
                           charge_amount |-> "150.0"])>>]
    /\ config = [yearly_reset |-> TRUE]
    /\ header = [f \in Firms |-> COLUMNS]
    /\ InitFiles /\ InitProcs
    /\ last = [op |-> "none", firm |-> None, proc |-> NoProc, ret |-> None,
               raised |-> None, issued |-> <<>>]
    /\ tick = FALSE

AuditNext ==
    \E p \in Procs :
        \/ \E f \in Firms : \E e \in AuditEdits : EditFind(p, f, e)
        \/ EditLoad(p)
        \/ EditSave(p)
        \/ EditSaveFails(p)
        \/ AuditExists(p)
        \/ AuditWrite(p)

SpecAudit == AuditInit /\ [][AuditNext]_vars

\* the entry append_audit writes for the edit p runs
EntryOf(p) ==
    AuditRow(call[p].firm, call[p].args.index_number, call[p].args.appearance_date,
             EDITABLE_FIELDS[call[p].args.field_name], call[p].args.field_name,
             call[p].old_value, call[p].coerced, call[p].args.reason)

\* C12: an entry is appended to the audit log only by an edit whose table
\* save has been done, in the step in which that edit returns success, and
\* it is the one entry (old value, new value, reason) of that edit; an edit
\* that returns success has appended exactly one entry; an edit that fails
\* or whose save raises appends none.
C12_SaveThenOneEntry ==
    [][/\ AuditEntries(audit') # AuditEntries(audit) =>
            \E p \in Procs :
                /\ pc[p] = "audit_write" /\ call[p].saved
                /\ pc'[p] = "idle"
                /\ last'.op = "edit" /\ last'.proc = p
                /\ last'.raised = None /\ last'.ret.success
                /\ AuditEntries(audit') = Append(AuditEntries(audit), EntryOf(p))
       /\ \A p \in Procs :
            (call[p].op = "edit" /\ pc'[p] = "idle") =>
                IF pc[p] = "audit_write"
                THEN Len(AuditEntries(audit')) = Len(AuditEntries(audit)) + 1
                ELSE audit' = audit
      ]_vars

\* an edit of charge_amount has returned success, and its entry (old value
\* 150.0, new value 200.0, the reason) is the second entry of the log
C12_Witness ==
    /\ last.op = "edit" /\ last.raised = None /\ last.ret.success
    /\ Len(AuditEntries(audit)) = 2
    /\ audit.lines[Len(audit.lines)][8] = "150.0"
    /\ audit.lines[Len(audit.lines)][9] = "200.0"
    /\ audit.lines[Len(audit.lines)][10] = "client asked"

\* s is the beginning of t
IsPrefix(s, t) == Len(s) <= Len(t) /\ SubSeq(t, 1, Len(s)) = s

\* C13: the audit log only grows: every line of the log stays, unchanged
\* and at its position, in every later state, whichever process appends
\* for whichever firm.
C13_AuditAppendOnly ==
    [][IsPrefix(audit.lines, audit'.lines) /\ (audit.exists => audit'.exists)]_vars

\* both processes have appended an entry, one for each firm
C13_Witness ==
    /\ Len(AuditEntries(audit)) = 2
    /\ AuditEntries(audit)[1][5] # AuditEntries(audit)[2][5]

----------------------------------------------------------------------------
(* SpecRelease: processes calling the locked operations                    *)
(* (assign_invoice_numbers, mark_payment, import_legacy_invoice) on one    *)
(* firm; the write of the holder information can fail.                     *)

\* import_legacy_invoice of a file with n cases: with FirmFileLock(firm_name)
ImportEnter(p, n) ==
    LockEnter(p, [op |-> "import", firm |-> MainFirm, ret |-> <<>>,
                  raised |-> None, cases |-> n])

\* import_legacy_invoice, the loop: without cases it ends at once; with
\* cases the first call upsert_row(firm_name, case, _hold_lock=False) raises
\* TypeError, upsert_row having no such parameter
ImportBody(p) ==
    /\ pc[p] = "locked" /\ call[p].op = "import"
    /\ call' = [call EXCEPT ![p].raised = IF call[p].cases = 0 THEN None ELSE "TypeError"]
    /\ pc' = [pc EXCEPT ![p] = "lock_exit"]
    /\ UNCHANGED <<calls, table, counter, audit, year, config, header, flock, sentinel, wb,
                   elapsed, last, tick>>

ReleaseInit ==
    /\ table = [f \in Firms |->
                  IF f = MainFirm
                  THEN <<RowOf([index_number |-> "IDX-1",
                                appearance_date |-> "2026-01-05"])>>
                  ELSE <<>>]
    /\ config = [yearly_reset |-> TRUE]
    /\ header = [f \in Firms |-> COLUMNS]
    /\ InitFiles /\ InitProcs
    /\ last = [op |-> "none", firm |-> None, proc |-> NoProc, ret |-> None,
               raised |-> None, issued |-> <<>>]
    /\ tick = FALSE

ReleaseNext ==
    \E p \in Procs :
        \/ AssignEnter(p)
        \/ AssignLoad(p)
        \/ AssignCounterLoad(p)
        \/ AssignCounterSave(p)
        \/ AssignSave(p)
        \/ \E pay \in ConcPayments : PayEnter(p, pay)
        \/ PayLoad(p)
        \/ PaySave(p)
        \/ PayReread(p)
        \/ \E n \in {0, 1} : ImportEnter(p, n)
        \/ ImportBody(p)
        \/ LockSteps(p)
        \/ LockWriteFails(p)

SpecRelease == ReleaseInit /\ [][ReleaseNext]_vars

\* p is inside the with block of a locked operation on firm f, or in the
\* part of __enter__ or __exit__ in which its descriptor is locked
InWith(p, f) ==
    /\ pc[p] \in {"lock_truncate", "lock_write", "locked", "assign_next",
                  "counter_save", "pay_save", "lock_exit"}
    /\ FirmOf(p) = f

\* C16: a process holds the lock of a firm only while it is inside a locked
\* operation: once the operation has ended, normally, by an error raised in
\* the locked section or by a failed write of the holder information, the
\* lock is free for others.
C16_LockReleasedOnExit ==
    \A f \in Firms : \A p \in Procs : Holds(p, f) => InWith(p, f)

\* mark_payment of one process has ended with ValueError (invoice not
\* found), and the other process has the lock of the firm
C16_Witness ==
    /\ last.op = "pay" /\ last.raised = "ValueError"
    /\ pc[last.proc] = "idle"
    /\ \E q \in Procs \ {last.proc} : pc[q] = "locked" /\ Holds(q, last.firm)

\* C23: every step that reads a firm's invoice counter file (_load_counter)
\* or writes it (_save_counter) is taken by a process that holds the lock of
\* that firm, and the file changes by no other step.
C23_CounterUnderLock ==
    [][/\ \A p \in Procs :
            (AssignCounterLoad(p) \/ AssignCounterSave(p)) => Holds(p, call[p].firm)
       /\ \A f \in Firms :
            counter'[f] # counter[f] =>
                \E p \in Procs : AssignCounterSave(p) /\ call[p].firm = f /\ Holds(p, f)]_vars

\* a process has read the counter file and is about to write it while the
\* other process waits for the lock of the same firm
C23_Witness ==
    \E p \in Procs : \E q \in Procs \ {p} :
        /\ pc[p] = "counter_save" /\ Holds(p, call[p].firm)
        /\ pc[q] = "lock_deadline" /\ FirmOf(q) = call[p].firm

\* C24: the audit log, absent at first, holds after any interleaving of
\* append_audit calls exactly one header row, as its first row, and every
\* other row is an entry of ten fields.
C24_OneHeaderFirst ==
    audit.lines # <<>> =>
        /\ audit.lines[1] = AUDIT_COLUMNS
        /\ \A i \in 2..Len(audit.lines) :
              audit.lines[i] # AUDIT_COLUMNS /\ Len(audit.lines[i]) = Len(AUDIT_COLUMNS)

\* C25: the holder information a timing-out acquirer reads for its
\* LockTimeout message is never empty or partial: it is the complete
\* metadata of a process that acquired the lock.
C25_HolderInfoComplete ==
    (last.op # "none" /\ "holder" \in DOMAIN last) =>
        \E q \in Procs : last.holder = LockInfo(q)

\* a stored charge that is a number, finite and not negative
NonNegativeCharge(v) == v \in {"150.0", "175.0", "200.0", "200.00", "175", "0.0"}

\* the position in the table before the call of the record the call addresses
EditedBefore(l) == MatchKey(l.pre, Str(l.args.index_number), Str(l.args.appearance_date))

\* C29: a successful editField changes only the named field of the matched
\* record: every other field of that record, the stored index_number and
\* appearance_date included (also when the caller spells the index number in
\* another letter case or with surrounding whitespace), every other record
\* and the number of rows are as they were before the call.
C29_EditChangesOnlyNamedField ==
    (last.op = "edit" /\ last.ret.success) =>
        /\ Len(table[last.firm]) = Len(last.pre)
        /\ EditedBefore(last) # 0
        /\ \A i \in 1..Len(last.pre) : \A c \in Headers :
              (i # EditedBefore(last) \/ c # last.args.field_name) =>
                  table[last.firm][i][c] = last.pre[i][c]

\* C27: the charge_amount of every record of every table is a non-negative,
\* finite number, whatever edits were made.
C27_ChargeNonNegative ==
    \A f \in Firms : \A i \in 1..Len(table[f]) :
        ~IsBlank(table[f][i]) => NonNegativeCharge(table[f][i]["charge_amount"])

\* C21: a batch import that has taken the firm's lock comes to the end of
\* its with block still holding that lock, with one result ("inserted" or
\* "updated") per record of the batch and without an error: the per-record
\* upserts ran inside the single hold of the lock.
C21_BatchUnderOneLock ==
    \A p \in Procs :
        (call[p].op = "import" /\ pc[p] = "lock_exit") =>
            /\ Holds(p, call[p].firm)
            /\ call[p].raised = None
            /\ Len(call[p].ret) = call[p].cases

----------------------------------------------------------------------------
(* dataset.py: validate_dataset *)

REQUIRED_COLUMNS == <<"case_caption", "index_number", "appearance_date", "charge_amount">>

VALID_PAID_STATUSES == {"Paid", "Unpaid", "Partial"}

\* cells that hold a datetime (openpyxl's value of a date-formatted cell),
\* written as str() prints them
DateObjects == {"2026-01-05 00:00:00"}

\* whether datetime.strptime(s, "%Y-%m-%d") returns
IsIsoDate(s) == s \in {"2026-01-05", "2026-01-12"}

\* one message of the returned list: the sheet row it names ("Row {row_num}:",
\* 0 for a message about the sheet), the rule, and what the message quotes
Err(row_num, rule, col, value, key, cols) ==
    [row |-> row_num, rule |-> rule, col |-> col, value |-> value, key |-> key, cols |-> cols]

\* missing_cols: the expected columns the header row lacks, in COLUMNS order
MissingCols(headers) ==
    SelectSeq(COLUMNS, LAMBDA c : \A i \in 1..Len(headers) : headers[i] # c)

\* the loop over REQUIRED_COLUMNS: one message per required field that is
\* None or blank
RequiredErrors(row, row_num) ==
    LET F[k \in 0..Len(REQUIRED_COLUMNS)] ==
            IF k = 0 THEN <<>>
            ELSE LET col == REQUIRED_COLUMNS[k]
                 IN  F[k - 1] \o
                     (IF row[col] = None \/ Strip(Str(row[col])) = ""
                      THEN <<Err(row_num, "missing required field", col, None, <<>>, <<>>)>>
                      ELSE <<>>)
    IN  F[Len(REQUIRED_COLUMNS)]

\* appearance_date: a date or datetime passes, a string must parse as %Y-%m-%d
DateErrors(row, row_num) ==
    LET ad == row["appearance_date"]
    IN  IF ad # None /\ ad \notin DateObjects /\ ~IsIsoDate(ad)
        THEN <<Err(row_num, "is not YYYY-MM-DD", "appearance_date", ad, <<>>, <<>>)>>
        ELSE <<>>

\* charge_amount: float(amt) must return
ChargeErrors(row, row_num) ==
    LET amt == row["charge_amount"]
    IN  IF amt # None /\ ~IsFloat(amt)
        THEN <<Err(row_num, "is not a number", "charge_amount", amt, <<>>, <<>>)>>
        ELSE <<>>

\* case_status and paid_status: a non-blank value must be one of the valid set
EnumErrors(row, row_num, col, valid) ==
    LET v == row[col]
    IN  IF v # None /\ Strip(Str(v)) # "" /\ Strip(Str(v)) \notin valid
        THEN <<Err(row_num, "not in", col, v, <<>>, <<>>)>>
        ELSE <<>>

\* a mutant of the key of the uniqueness check: index numbers are compared
\* as written, without strip().lower()
ValidateKeyCaseSensitive(row) ==
    <<Str(row["index_number"]), Str(row["appearance_date"])>>

\* the key of the uniqueness check
ValidateKey(row) ==
    <<StripLower(Str(row["index_number"])), Str(row["appearance_date"])>>

\* the uniqueness check: a message when the key was seen in an earlier row
DuplicateErrors(row, row_num, seen_keys) ==
    IF ValidateKey(row) \in seen_keys
    THEN <<Err(row_num, "duplicate key", None, None, ValidateKey(row), <<>>)>>
    ELSE <<>>

\* a mutant of errors.append: the list keeps its first message only
AppendFirstOnly(errors, new) ==
    IF errors # <<>> THEN errors
    ELSE IF new = <<>> THEN <<>> ELSE <<Head(new)>>

\* errors.append, for the messages of one check
AppendErrors(errors, new) == errors \o new

\* the messages of one data row, in the order of the checks
RowErrors(row, row_num, seen_keys) ==
    LET e1 == AppendErrors(<<>>, RequiredErrors(row, row_num))
        e2 == AppendErrors(e1, DateErrors(row, row_num))
        e3 == AppendErrors(e2, ChargeErrors(row, row_num))
        e4 == AppendErrors(e3, EnumErrors(row, row_num, "case_status", VALID_CASE_STATUSES))
        e5 == AppendErrors(e4, EnumErrors(row, row_num, "paid_status", VALID_PAID_STATUSES))
    IN  AppendErrors(e5, DuplicateErrors(row, row_num, seen_keys))

\* validate_dataset on an existing file with sheet 'cases': the header row
\* and the data rows (data row i is sheet row i + 1)
validate_dataset(headers, rows) ==
    LET missing_cols == MissingCols(headers)
        F[i \in 0..Len(rows)] ==
            IF i = 0 THEN [errors |-> <<>>, seen_keys |-> {}]
            ELSE IF IsBlank(rows[i]) THEN F[i - 1]
            ELSE [errors |-> AppendErrors(F[i - 1].errors,
                                          RowErrors(rows[i], i + 1, F[i - 1].seen_keys)),
                  seen_keys |-> F[i - 1].seen_keys \cup {ValidateKey(rows[i])}]
    IN  IF missing_cols # <<>>
        THEN <<Err(0, "Missing columns", None, None, <<>>, missing_cols)>>
        ELSE F[Len(rows)].errors

----------------------------------------------------------------------------
(* SpecValidate: validate_dataset applied to the sheets of MainFirm *)

MaxRows == 3

\* a data row of the sheet
SheetRow(idx, ad, caption, amt, cs, ps) ==
    [BlankRow EXCEPT !["index_number"] = idx, !["appearance_date"] = ad,
                     !["case_caption"] = caption, !["charge_amount"] = amt,
                     !["case_status"] = cs, !["paid_status"] = ps]

\* the data rows of the sheets: two valid rows whose index numbers differ in
\* case and blanks only, a row that breaks every rule, a fully blank row, a
\* row with a datetime cell, a row whose charge is a blank string
SheetRows ==
    {SheetRow("IDX-1", "2026-01-05", "Doe v Roe", "150.0", None, None),
     SheetRow(" idx-1 ", "2026-01-05", "Doe v Roe", "175", "Closed", "Paid"),
     SheetRow(None, "01/05/2026", " ", "abc", "Pending", "Late"),
     BlankRow,
     SheetRow("IDX-2", "2026-01-05 00:00:00", "Doe v Roe", "150.0", "Open", None),
     SheetRow("idx-1", "2026-01-12", None, " ", " ", "Unpaid")}

\* the header rows of the sheets: the one create_workbook writes, one
\* without paid_status, one with two columns only
SheetHeaders ==
    {COLUMNS,
     SelectSeq(COLUMNS, LAMBDA c : c # "paid_status"),
     <<"index_number", "appearance_date">>}

Sheets == UNION {[1..n -> SheetRows] : n \in 0..MaxRows}

\* validate_dataset(f), as one step
SeqValidate(f) ==
    /\ last' = [op |-> "validate", firm |-> f, headers |-> header[f],
                pre |-> table[f], ret |-> validate_dataset(header[f], table[f])]
    /\ tick' = ~tick
    /\ UNCHANGED <<calls, table, counter, audit, year, config, header, flock, sentinel, pc,
                   call, wb, elapsed>>

ValidateInit ==
    /\ \E rows \in Sheets : table = [f \in Firms |-> IF f = MainFirm THEN rows ELSE <<>>]
    /\ \E h \in SheetHeaders : header = [f \in Firms |-> IF f = MainFirm THEN h ELSE COLUMNS]
    /\ config = [yearly_reset |-> TRUE]
    /\ InitFiles /\ InitProcs
    /\ last = [op |-> "none", firm |-> None, headers |-> <<>>, pre |-> <<>>, ret |-> <<>>]
    /\ tick = FALSE

ValidateNext == SeqValidate(MainFirm)

SpecValidate == ValidateInit /\ [][ValidateNext]_vars

\* two data rows share the composite key: the same index number up to letter
\* case and surrounding blanks, the same appearance_date
SameKey(r1, r2) ==
    /\ StripLower(Str(r1["index_number"])) = StripLower(Str(r2["index_number"]))
    /\ Str(r1["appearance_date"]) = Str(r2["appearance_date"])

\* the pairs of positions (earlier, later) of non-blank data rows that share
\* the composite key
DuplicatePairs(rows) ==
    {pr \in (1..Len(rows)) \X (1..Len(rows)) :
        /\ pr[1] < pr[2]
        /\ ~IsBlank(rows[pr[1]]) /\ ~IsBlank(rows[pr[2]])
        /\ SameKey(rows[pr[1]], rows[pr[2]])}

\* validate has run on a sheet with every expected column
ValidatedRows == last.op = "validate" /\ MissingCols(last.headers) = <<>>

\* the message names sheet row n ("Row {n}: ...")
NamesRow(e, n) == e.row = n

\* C19 (as the code has it): for every sheet with a correct header and two
\* non-blank rows sharing the composite key, validate returns a duplicate-key
\* message for the later row of the pair, which names that row's position and
\* the key; every duplicate-key message is of that kind (the earlier row of a
\* pair is named only when it is itself the later row of another pair).
C19_DuplicateReportedAtLaterRow ==
    ValidatedRows =>
        LET rows == last.pre
            ret == last.ret
        IN  /\ \A pr \in DuplicatePairs(rows) :
                  \E k \in 1..Len(ret) :
                      /\ ret[k].rule = "duplicate key"
                      /\ NamesRow(ret[k], pr[2] + 1)
                      /\ ret[k].key = <<StripLower(Str(rows[pr[2]]["index_number"])),
                                        Str(rows[pr[2]]["appearance_date"])>>
            /\ \A k \in 1..Len(ret) :
                  ret[k].rule = "duplicate key" =>
                      \E pr \in DuplicatePairs(rows) : ret[k].row = pr[2] + 1

\* C19 (as stated): for every sheet with a correct header and two rows
\* sharing the composite key, validate returns a duplicate-key message that
\* references the positions of both rows.
C19_DuplicateNamesBothRows ==
    ValidatedRows =>
        \A pr \in DuplicatePairs(last.pre) :
            \E k \in 1..Len(last.ret) :
                /\ last.ret[k].rule = "duplicate key"
                /\ NamesRow(last.ret[k], pr[1] + 1)
                /\ NamesRow(last.ret[k], pr[2] + 1)

\* validate has run on a sheet whose rows 2 and 4 hold "IDX-1" and " idx-1 "
\* with the same date, and has returned a duplicate-key message for row 4
C19_Witness ==
    /\ ValidatedRows
    /\ Len(last.pre) = 3
    /\ last.pre[1]["index_number"] = "IDX-1"
    /\ last.pre[3]["index_number"] = " idx-1 "
    /\ <<1, 3>> \in DuplicatePairs(last.pre)
    /\ \E k \in 1..Len(last.ret) :
          last.ret[k].rule = "duplicate key" /\ last.ret[k].row = 4

\* the rules data row i of the sheet violates, each with the column it is about
Violations(rows, i) ==
    LET row == rows[i]
        blank(c) == row[c] = None \/ Strip(Str(row[c])) = ""
    IN  {<<"missing required field", c>> : c \in {d \in Headers : d \in Range(REQUIRED_COLUMNS) /\ blank(d)}}
        \cup {<<"is not YYYY-MM-DD", "appearance_date">> : x \in
                {y \in {row["appearance_date"]} : y # None /\ y \notin DateObjects /\ ~IsIsoDate(y)}}
        \cup {<<"is not a number", "charge_amount">> : x \in
                {y \in {row["charge_amount"]} : y # None /\ ~IsFloat(y)}}
        \cup {<<"not in", "case_status">> : x \in
                {y \in {row["case_status"]} : ~blank("case_status") /\ Strip(y) \notin VALID_CASE_STATUSES}}
        \cup {<<"not in", "paid_status">> : x \in
                {y \in {row["paid_status"]} : ~blank("paid_status") /\ Strip(y) \notin VALID_PAID_STATUSES}}
        \cup {<<"duplicate key", None>> : pr \in {q \in DuplicatePairs(rows) : q[2] = i}}

\* C20: on a sheet with every expected column validate returns, for every
\* non-blank data row and every rule the row violates, exactly one message
\* naming that row and that rule, and no other message (it does not stop at
\* the first); on a sheet that lacks expected columns it returns one message,
\* the missing columns, and none about a row.
C20_AllViolationsReported ==
    last.op = "validate" =>
        LET rows == last.pre
            ret == last.ret
            missing == MissingCols(last.headers)
        IN  IF missing # <<>>
            THEN ret = <<Err(0, "Missing columns", None, None, <<>>, missing)>>
            ELSE /\ \A i \in 1..Len(rows) : ~IsBlank(rows[i]) =>
                        \A v \in Violations(rows, i) :
                            Cardinality({k \in 1..Len(ret) :
                                            /\ ret[k].row = i + 1
                                            /\ ret[k].rule = v[1]
                                            /\ ret[k].col = v[2]}) = 1
                 /\ \A k \in 1..Len(ret) :
                        /\ ret[k].row - 1 \in 1..Len(rows)
                        /\ ~IsBlank(rows[ret[k].row - 1])
                        /\ <<ret[k].rule, ret[k].col>> \in Violations(rows, ret[k].row - 1)

\* validate has run on a sheet with a blank row and two rows that violate
\* rules, one of them six rules, and has returned messages about both rows
C20_Witness ==
    /\ ValidatedRows
    /\ \E i \in 1..Len(last.pre) : IsBlank(last.pre[i])
    /\ \E i \in 1..Len(last.pre) : Cardinality(Violations(last.pre, i)) >= 6
    /\ \E k1 \in 1..Len(last.ret) : \E k2 \in 1..Len(last.ret) :
          last.ret[k1].row # last.ret[k2].row
    /\ Len(last.ret) >= 8

----------------------------------------------------------------------------
(* dataset.py: query_by_date_range.  A date is the day of January 2026 it  *)
(* names; NoDate is Python's None, and date.min in the sort key.           *)

NoDate == 0

\* _to_date: None for an empty cell; the date of a datetime; for any other
\* value strptime of the text before the first blank, None when that fails
ToDate(val) ==
    CASE val = None -> NoDate
      [] val \in {"2026-01-05", "2026-01-05 00:00:00", "2026-01-05 9am"} -> 5
      [] val \in {"2026-01-08", "2026-1-8"} -> 8
      [] val = "2026-01-12" -> 12
      [] OTHER -> NoDate

\* a mutant of the range test: the end of the range is excluded
InRangeEndExcluded(d, start, end) == d # NoDate /\ start <= d /\ d < end

\* d is not None and start <= d <= end
InRange(d, start, end) == d # NoDate /\ start <= d /\ d <= end

\* list.sort(key=...): ascending by the key, rows with equal keys in the
\* order they had
SortByDate(rows) ==
    LET key(r) == ToDate(r["appearance_date"])
        Insert(sorted, r) ==
            LET n == Cardinality({i \in 1..Len(sorted) : key(sorted[i]) <= key(r)})
            IN  SubSeq(sorted, 1, n) \o <<r>> \o SubSeq(sorted, n + 1, Len(sorted))
        F[i \in 0..Len(rows)] == IF i = 0 THEN <<>> ELSE Insert(F[i - 1], rows[i])
    IN  F[Len(rows)]

\* query_by_date_range(firm_name, start, end) on the rows of the sheet
query_by_date_range(rows, start, end) ==
    SortByDate(SelectSeq(load_dataset(rows),
                         LAMBDA r : InRange(ToDate(r["appearance_date"]), start, end)))

----------------------------------------------------------------------------
(* SpecQuery: query_by_date_range applied to the sheets of MainFirm *)

\* the data rows of the sheets, by their appearance_date: three days written
\* as the program writes them, a datetime cell, a date followed by a time of
\* day, a date without leading zeros, a date in another form, no date, and
\* a fully blank row
QueryRows ==
    {RowOf([index_number |-> "IDX-1", appearance_date |-> ad]) :
        ad \in {"2026-01-12", "2026-01-05", "2026-01-08", "2026-01-05 00:00:00",
                "2026-01-05 9am", "2026-1-8", "01/05/2026", None}}
    \cup {BlankRow}

\* the bounds of the queries: the days the rows name
QueryDays == {5, 8, 12}

QuerySheets == UNION {[1..n -> QueryRows] : n \in 0..MaxRows}

\* query_by_date_range(f, start, end), as one step
SeqQuery(f, start, end) ==
    /\ last' = [op |-> "query", firm |-> f, start |-> start, end |-> end,
                pre |-> table[f], ret |-> query_by_date_range(table[f], start, end)]
    /\ tick' = ~tick
    /\ UNCHANGED <<calls, table, counter, audit, year, config, header, flock, sentinel, pc,
                   call, wb, elapsed>>

QueryInit ==
    /\ \E rows \in QuerySheets : table = [f \in Firms |-> IF f = MainFirm THEN rows ELSE <<>>]
    /\ header = [f \in Firms |-> COLUMNS]
    /\ config = [yearly_reset |-> TRUE]
    /\ InitFiles /\ InitProcs
    /\ last = [op |-> "none", firm |-> None, start |-> 0, end |-> 0, pre |-> <<>>, ret |-> <<>>]
    /\ tick = FALSE

QueryNext == \E start \in QueryDays : \E end \in QueryDays : SeqQuery(MainFirm, start, end)

SpecQuery == QueryInit /\ [][QueryNext]_vars

\* how often row r occurs in the sequence
Count(seq, r) == Cardinality({i \in 1..Len(seq) : seq[i] = r})

\* the rows of the sheet whose appearance_date parses to a date within
\* [start, end]
Wanted(rows, start, end) ==
    {i \in 1..Len(rows) :
        LET d == ToDate(rows[i]["appearance_date"])
        IN  d # NoDate /\ start <= d /\ d <= end}

\* C22: query_by_date_range returns exactly the rows whose appearance_date
\* parses to a date d with start <= d <= end, each as often as the sheet holds
\* it, in ascending order of that date; a row without a date or with a date
\* that does not parse is never returned.
C22_QueryByDateRange ==
    last.op = "query" =>
        LET rows == last.pre
            ret == last.ret
            want == Wanted(rows, last.start, last.end)
        IN  /\ Len(ret) = Cardinality(want)
            /\ \A i \in want : Count(ret, rows[i]) = Cardinality({j \in want : rows[j] = rows[i]})
            /\ \A k \in 1..Len(ret) : \E i \in want : ret[k] = rows[i]
            /\ \A k \in 1..Len(ret) : \A m \in 1..Len(ret) :
                  k < m => ToDate(ret[k]["appearance_date"]) <= ToDate(ret[m]["appearance_date"])
            /\ \A k \in 1..Len(ret) : ToDate(ret[k]["appearance_date"]) # NoDate

\* a query for days 5 to 12 on a sheet that holds the 12th before the 5th
\* and a row whose date does not parse: both dated rows are returned, the
\* 5th first, the row of the last day of the range included
C22_Witness ==
    /\ last.op = "query" /\ last.start = 5 /\ last.end = 12
    /\ Len(last.pre) = 3
    /\ last.pre[1]["appearance_date"] = "2026-01-12"
    /\ last.pre[2]["appearance_date"] = "01/05/2026"
    /\ last.pre[3]["appearance_date"] = "2026-01-05"
    /\ last.ret = <<last.pre[3], last.pre[1]>>

----------------------------------------------------------------------------
(* SpecRace: two processes edit the charge of one case of MainFirm while   *)
(* the invoice of the case is marked as sent.                              *)

\* the edits the processes make: a charge without a reason, a charge with one
RaceEdits ==
    {[index_number |-> "IDX-1", appearance_date |-> "2026-01-05",
      field_name |-> "charge_amount", new_value |-> "200.00", reason |-> None],
     [index_number |-> "IDX-1", appearance_date |-> "2026-01-05",
      field_name |-> "charge_amount", new_value |-> "175", reason |-> "client asked"]}

\* the invoice of the case is sent: the dict upsert_row gets
MarkSentData ==
    [index_number |-> "IDX-1", appearance_date |-> "2026-01-05",
     invoice_sent_date |-> "2026-02-01"]

RaceInit ==
    /\ table = [f \in Firms |->
                  IF f = MainFirm
                  THEN <<RowOf([index_number |-> "IDX-1",
                                appearance_date |-> "2026-01-05",
                                case_caption |-> "Doe v Roe",
                                charge_amount |-> "150.0"])>>
                  ELSE <<>>]
    /\ config = [yearly_reset |-> TRUE]
    /\ header = [f \in Firms |-> COLUMNS]
    /\ InitFiles /\ InitProcs
    /\ last = [op |-> "none", firm |-> None, proc |-> NoProc, ret |-> None,
               raised |-> None, issued |-> <<>>]
    /\ tick = FALSE

RaceNext ==
    \E p \in Procs :
        \/ \E e \in RaceEdits : EditFind(p, MainFirm, e)
        \/ EditLoad(p)
        \/ EditSave(p)
        \/ AuditExists(p)
        \/ AuditWrite(p)
        \/ UpsertLoad(p, MarkSentData)
        \/ UpsertSave(p)

SpecRace == RaceInit /\ [][RaceNext]_vars

\* the invoice of the row was sent: invoice_sent_date is populated
InvoiceSent(row) ==
    row["invoice_sent_date"] # None /\ Strip(Str(row["invoice_sent_date"])) # ""

\* the position in rows of the row the edit of p addresses, 0 for none
EditedRow(p, rows) ==
    MatchKey(rows, Str(call[p].args.index_number), Str(call[p].args.appearance_date))

\* C26: whenever edit_case_field writes a charge_amount it was given without
\* a reason, the record it writes to has no invoice_sent_date in the table
\* that write produces.
C26_NoChargeEditWithoutReason ==
    [][\A p \in Procs :
          (/\ EditSave(p)
           /\ call[p].args.field_name = "charge_amount"
           /\ call[p].args.reason \in {None, ""})
          => LET rows == table'[call[p].firm]
                 i == EditedRow(p, rows)
             IN  i # 0 => ~InvoiceSent(rows[i])]_vars

\* C28: the entry edit_case_field appends to the audit log has as old_value
\* the value the field held in the table just before that edit's write and
\* as new_value the value it holds just after it.
C28_AuditValuesMatchWrite ==
    [][\A p \in Procs :
          EditSave(p) =>
              LET f == call[p].firm
                  fld == call[p].args.field_name
                  i == EditedRow(p, table[f])
                  j == EditedRow(p, table'[f])
              IN  /\ i # 0 /\ j # 0
                  /\ call[p].old_value = table[f][i][fld]
                  /\ call[p].coerced = table'[f][j][fld]]_vars

----------------------------------------------------------------------------
(* SpecFrame: one process editing fields of two cases, one call after the  *)
(* other, spelling the index number as stored or in another letter case    *)
(* with surrounding whitespace, and passing any number as the charge.      *)

FrameKeys ==
    {<<"IDX-1", "2026-01-05">>, <<" idx-1 ", "2026-01-05">>, <<"IDX-2", "2026-01-05">>}

FrameValues ==
    [charge_amount |-> {"200.00", "-5", "nan"},
     case_status |-> {"Closed"}]

FrameReasons == {None, "client asked"}

FrameInit ==
    /\ table = [f \in Firms |->
                  IF f = MainFirm
                  THEN <<RowOf([index_number |-> "IDX-1",
                                appearance_date |-> "2026-01-05",
                                case_caption |-> "Doe v Roe",
                                charge_amount |-> "150.0"]),
                         RowOf([index_number |-> "IDX-2",
                                appearance_date |-> "2026-01-05",
                                case_caption |-> "Poe v Moe",
                                charge_amount |-> "175.0"])>>
                  ELSE <<>>]
    /\ config = [yearly_reset |-> TRUE]
    /\ header = [f \in Firms |-> COLUMNS]
    /\ InitFiles /\ InitProcs /\ InitObs

FrameNext ==
    \E k \in FrameKeys, fld \in DOMAIN FrameValues, r \in FrameReasons :
        \E v \in FrameValues[fld] : SeqEditField(MainFirm, k[1], k[2], fld, v, r)

SpecFrame == FrameInit /\ [][FrameNext]_vars

----------------------------------------------------------------------------
(* SpecCrash: assign_invoice_numbers called again and again on a table     *)
(* with rows that lack a number, over the turn of the year; the save of    *)
(* the workbook can fail, and the process can die inside the with block.   *)

\* assign_invoice_numbers: wb.save(path) raises; the file is as it was, the
\* exception leaves the with block
AssignSaveFails(p) ==
    /\ pc[p] = "assign_next"
    /\ LacksInvoice(wb[p]) = {}
    /\ call' = [call EXCEPT ![p].raised = "OSError"]
    /\ pc' = [pc EXCEPT ![p] = "lock_exit"]
    /\ UNCHANGED <<calls, table, counter, audit, year, config, header, flock, sentinel, wb,
                   elapsed, last, tick>>

\* the process is killed inside the with block of assign_invoice_numbers:
\* its workbook is lost, its descriptor is closed by the system, which frees
\* the lock; the sentinel file stays
AssignDies(p) ==
    /\ call[p].op = "assign"
    /\ pc[p] \in {"assign_next", "counter_save"}
    /\ flock' = Released(p, call[p].firm)
    /\ wb' = [wb EXCEPT ![p] = <<>>]
    /\ last' = Raised(p, "Killed")
    /\ call' = [call EXCEPT ![p] = NoCall]
    /\ pc' = [pc EXCEPT ![p] = "idle"]
    /\ UNCHANGED <<calls, table, counter, audit, year, config, header, sentinel, elapsed, tick>>

\* the table of the firm has one or two cases, none with a number
CrashInit ==
    /\ \E n \in 1..2 :
          table = [f \in Firms |->
                     IF f = MainFirm
                     THEN SubSeq(<<RowOf([index_number |-> "IDX-1",
                                          appearance_date |-> "2026-01-05"]),
                                   RowOf([index_number |-> "IDX-2",
                                          appearance_date |-> "2026-01-05"])>>, 1, n)
                     ELSE <<>>]
    /\ config \in [yearly_reset : BOOLEAN]
    /\ header = [f \in Firms |-> COLUMNS]
    /\ InitFiles /\ InitProcs
    /\ last = [op |-> "none", firm |-> None, proc |-> NoProc, ret |-> None,
               raised |-> None, issued |-> <<>>]
    /\ tick = FALSE

\* one call of assign_invoice_numbers after the other; the lock is free
\* whenever a call begins
CrashNext ==
    \/ \E p \in {"p1"} :
          \/ AssignEnter(p)
          \/ LockTry(p)
          \/ LockTruncate(p)
          \/ LockWrite(p)
          \/ AssignLoad(p)
          \/ AssignCounterLoad(p)
          \/ AssignCounterSave(p)
          \/ AssignSave(p)
          \/ AssignSaveFails(p)
          \/ AssignDies(p)
          \/ LockExit(p)
    \/ NewYear

SpecCrash == CrashInit /\ [][CrashNext]_vars

\* the counter the next call of next_invoice_number for firm f starts from
CounterNow(f) == YearlyReset(LoadCounter(counter[f], year), year, config.yearly_reset)

\* C30: in every state, the states after assign_invoice_numbers failed or
\* its process died between the save of the counter and the save of the
\* table included, the stored last_number of a firm is at least every
\* sequence number of the current year in the firm's table, and the number
\* the next call of next_invoice_number would return is not in the table.
C30_CounterCoversTable ==
    \A f \in Firms :
        /\ \A k \in 1..(MaxIssued + 1) :
              FormatInvoice(Initials[f], year, k) \in Range(TableNumbers(table[f])) =>
                  k <= LastNumber(counter[f])
        /\ \A k \in 1..(MaxIssued + 1) :
              FormatInvoice(Initials[f], CounterNow(f).year, k)
                    \in Range(TableNumbers(table[f])) =>
                  k <= CounterNow(f).last_number
        /\ next_invoice_number(counter[f], year, config.yearly_reset, Initials[f]).ret
              \notin Range(TableNumbers(table[f]))

\* a number was skipped: the first call saved the counter and did not save
\* the table, a later call has given the only case the number 002
C30_Witness ==
    /\ Len(table[MainFirm]) = 1
    /\ table[MainFirm][1]["invoice_number"] = "AL2026002"
    /\ LastNumber(counter[MainFirm]) = 2
    /\ last.raised = None
    /\ \A p \in Procs : pc[p] = "idle"

====
